---------------------------- MODULE Spec2Model ----------------------------
(***************************************************************************)
(* State-machine model of entrypoint_github_actions_audit.py: the          *)
(* configuration loader, the binary locator, the audit driver              *)
(* (discovery_run), the SARIF uploader and the gate evaluator.             *)
(*                                                                         *)
(* Python strings are sequences of one-character strings; a value that may *)
(* be None is a record [some, s].  File names are sequences of tokens      *)
(* ("a", ".", "yaml", ".", "audit-report", ".", "json") over a vocabulary  *)
(* in which no token can be spelled with pieces of the others, so that     *)
(* substring tests and replacements on the text are tests and replacements *)
(* on the tokens.  Parsed JSON values are records tagged by their type.    *)
(***************************************************************************)
EXTENDS Integers, Sequences, FiniteSets, TLC

VARIABLES
    pc,             \* position of the process
    env,            \* os.environ, as read by get_running_configuration
    binaries,       \* result of get_binary_path
    cfg,            \* the RunningConfiguration record
    results_files,  \* os.listdir(output_directory)
    listed,         \* the output directory has been listed
    i,              \* index of the report the loop is at
    sarif_file,     \* SARIF file name of the report the loop is at
    sarif_reports,  \* SARIF files of the successful conversions
    disk,           \* SARIF files on disk: name -> parsed document
    calls,          \* external steps taken so far, in order
    posts,          \* HTTP POSTs issued so far (SARIF file names)
    merge_cmd,      \* SARIF arguments of the merge command, once built
    ret,            \* last value returned or raised by the gate evaluator
    exitCode,       \* process exit status, meaningful once pc = "exited"
    fatal           \* why the process ended

vars == <<pc, env, binaries, cfg, results_files, listed, i, sarif_file,
          sarif_reports, disk, calls, posts, merge_cmd, ret, exitCode, fatal>>

---------------------------------------------------------------------------
(* Python values *)

None == [some |-> FALSE, s |-> <<>>]

Str(s) == [some |-> TRUE, s |-> s]

\* truth value of an optional string: None and "" are false
Truthy(v) == v.some /\ v.s # <<>>

Whitespace == {" ", "\t", "\n"}

UpperCase == <<"A","B","C","D","E","F","G","H","I","J","K","L","M",
               "N","O","P","Q","R","S","T","U","V","W","X","Y","Z">>

LowerCase == <<"a","b","c","d","e","f","g","h","i","j","k","l","m",
               "n","o","p","q","r","s","t","u","v","w","x","y","z">>

\* str.lower()
lower(s) ==
    [k \in 1..Len(s) |->
        IF \E u \in 1..Len(UpperCase) : UpperCase[u] = s[k]
        THEN LowerCase[CHOOSE u \in 1..Len(UpperCase) : UpperCase[u] = s[k]]
        ELSE s[k]]

\* str.strip(): leading and trailing whitespace removed
strip(s) ==
    LET keep == {k \in 1..Len(s) : s[k] \notin Whitespace}
    IN  IF keep = {} THEN <<>>
        ELSE LET lo == CHOOSE k \in keep : \A m \in keep : k <= m
                 hi == CHOOSE k \in keep : \A m \in keep : m <= k
             IN  SubSeq(s, lo, hi)

\* "/" in s
HasSlash(s) == \E k \in 1..Len(s) : s[k] = "/"

---------------------------------------------------------------------------
(* get_running_configuration *)

EnvNames == {"INPUT_ENFORCE-SQG", "INPUT_DATA-ENRICH",
             "INPUT_UPLOAD-TO-CODE-SCANNING", "INPUT_LOG-LEVEL",
             "INPUT_SARIF-REPORT", "INPUT_EXPORT-AS-PDF", "INPUT_TOKEN",
             "GITHUB_REPOSITORY", "GITHUB_REPOSITORY_OWNER", "GITHUB_REF",
             "GITHUB_SHA"}

\* os.getenv(name, default)
getenv(e, name, default) == IF e[name].some THEN e[name] ELSE default

_to_bool(value) ==
    IF ~value.some THEN FALSE
    ELSE lower(value.s) = <<"t","r","u","e">>

\* Faulty variant of _none_or_empty: compares without strip()
_none_or_empty_NoStrip(value) ==
    IF ~value.some THEN None
    ELSE IF value.s = <<>> THEN None
    ELSE value

_none_or_empty(value) ==
    IF ~value.some THEN None
    ELSE IF strip(value.s) = <<>> THEN None
    ELSE value

LogLevels == {<<"f","a","i","l">>, <<"e","r","r","o","r">>, <<"w","a","r","n">>,
              <<"i","n","f","o">>, <<"d","e","b","u","g">>}

resolve_log_level(e) ==
    LET log_level == getenv(e, "INPUT_LOG-LEVEL", Str(<<"i","n","f","o">>))
    IN  IF ~log_level.some THEN <<"i","n","f","o">>
        ELSE IF lower(log_level.s) \notin LogLevels THEN <<"i","n","f","o">>
        ELSE lower(log_level.s)

get_running_configuration(e) ==
    [ log_level               |-> lower(resolve_log_level(e)),
      data_enrich             |-> _to_bool(getenv(e, "INPUT_DATA-ENRICH", Str(<<"f","a","l","s","e">>))),
      enforce                 |-> _to_bool(getenv(e, "INPUT_ENFORCE-SQG", Str(<<"f","a","l","s","e">>))),
      sarif_report            |-> _none_or_empty(getenv(e, "INPUT_SARIF-REPORT", None)),
      export_as_pdf           |-> _none_or_empty(getenv(e, "INPUT_EXPORT-AS-PDF", None)),
      upload_to_code_scanning |-> _to_bool(getenv(e, "INPUT_UPLOAD-TO-CODE-SCANNING", Str(<<"f","a","l","s","e">>))),
      github_token            |-> getenv(e, "INPUT_TOKEN", None),
      github_repository       |-> getenv(e, "GITHUB_REPOSITORY", None),
      github_organization     |-> getenv(e, "GITHUB_REPOSITORY_OWNER", None),
      github_repository_owner |-> getenv(e, "GITHUB_REPOSITORY_OWNER", None),
      github_ref              |-> getenv(e, "GITHUB_REF", None),
      github_sha              |-> getenv(e, "GITHUB_SHA", None) ]

\* RunningConfiguration(): the dataclass defaults, before the environment is read
RunningConfiguration ==
    [ log_level               |-> <<"i","n","f","o">>,
      data_enrich             |-> FALSE,
      enforce                 |-> FALSE,
      sarif_report            |-> None,
      export_as_pdf           |-> None,
      upload_to_code_scanning |-> FALSE,
      github_token            |-> None,
      github_repository       |-> None,
      github_organization     |-> None,
      github_repository_owner |-> None,
      github_ref              |-> None,
      github_sha              |-> None ]

---------------------------------------------------------------------------
(* is_security_issues_found: parsed JSON and the Python operations on it *)

JNull == [t |-> "null"]

JNum == [t |-> "num"]

JBool == [t |-> "bool"]

JStr(n) == [t |-> "str", len |-> n]

JArr(items) == [t |-> "arr", items |-> items]

JObj(fields) == [t |-> "obj", fields |-> fields]

Ok(v) == [exc |-> "none", val |-> v]

Raise(e) == [exc |-> e, val |-> JNull]

\* v[key] for a string key
GetItemKey(v, key) ==
    IF v.t = "obj"
    THEN IF key \in DOMAIN v.fields THEN Ok(v.fields[key]) ELSE Raise("KeyError")
    ELSE Raise("TypeError")

\* v[0]; the keys of a parsed JSON object are strings, so 0 is never one
GetItem0(v) ==
    CASE v.t = "arr" -> IF Len(v.items) > 0 THEN Ok(v.items[1]) ELSE Raise("IndexError")
      [] v.t = "str" -> IF v.len > 0 THEN Ok(JStr(1)) ELSE Raise("IndexError")
      [] v.t = "obj" -> Raise("KeyError")
      [] OTHER       -> Raise("TypeError")

\* len(v), as a JSON number on success
PyLen(v) ==
    CASE v.t = "arr" -> [exc |-> "none", n |-> Len(v.items)]
      [] v.t = "str" -> [exc |-> "none", n |-> v.len]
      [] v.t = "obj" -> [exc |-> "none", n |-> Cardinality(DOMAIN v.fields)]
      [] OTHER       -> [exc |-> "TypeError", n |-> 0]

Returned(found, issues) == [exc |-> "none", found |-> found, issues |-> issues]

Raised(e) == [exc |-> e, found |-> FALSE, issues |-> 0]

NotCalled == [exc |-> "not called", found |-> FALSE, issues |-> 0]

is_security_issues_found(data) ==
    LET runs    == GetItemKey(data, "runs")
        run0    == IF runs.exc = "none" THEN GetItem0(runs.val) ELSE runs
        results == IF run0.exc = "none" THEN GetItemKey(run0.val, "results") ELSE run0
        length  == IF results.exc = "none" THEN PyLen(results.val)
                   ELSE [exc |-> results.exc, n |-> 0]
    IN  IF length.exc = "none"
        THEN IF length.n > 0 THEN Returned(TRUE, length.n) ELSE Returned(FALSE, -1)
        ELSE IF length.exc \in {"KeyError", "IndexError"} THEN Returned(FALSE, -1)
        ELSE Raised(length.exc)

---------------------------------------------------------------------------
(* upload_sarif *)

\* Faulty variant of upload_sarif: the "/" test of lines 116-119 is missing
upload_sarif_NoRepositoryCheck(github_token, github_repository, file_exists, response) ==
    IF ~Truthy(github_token) THEN [res |-> "no_token", posted |-> FALSE, exit |-> TRUE]
    ELSE IF ~file_exists THEN [res |-> "no_file", posted |-> FALSE, exit |-> TRUE]
    ELSE [res |-> response, posted |-> TRUE, exit |-> response # "ok"]

\* response: what urlopen does once the request is sent
upload_sarif(github_token, github_repository, file_exists, response) ==
    IF ~Truthy(github_token) THEN [res |-> "no_token", posted |-> FALSE, exit |-> TRUE]
    ELSE IF ~file_exists THEN [res |-> "no_file", posted |-> FALSE, exit |-> TRUE]
    ELSE IF ~github_repository.some THEN [res |-> "TypeError", posted |-> FALSE, exit |-> TRUE]
    ELSE IF ~HasSlash(github_repository.s) THEN [res |-> "bad_repo", posted |-> FALSE, exit |-> TRUE]
    ELSE [res |-> response, posted |-> TRUE, exit |-> response # "ok"]

---------------------------------------------------------------------------
(* get_binary_path *)

_get_audit_binary(_is_local_development, system) ==
    IF _is_local_development THEN "/usr/local/bin/42c-ast-darwin-amd64"
    ELSE CASE system = "Windows" -> "/usr/local/bin/42c-ast-windows-amd64.exe"
           [] system = "Darwin"  -> "/usr/local/bin/42c-ast-darwin-amd64"
           [] system = "Linux"   -> "/usr/local/bin/42c-ast-linux-amd64"
           [] OTHER              -> ""

---------------------------------------------------------------------------
(* report file names *)

\* "audit-report" in report
IsReport(report) == \E k \in 1..Len(report) : report[k] = "audit-report"

ReportSuffix == <<".", "audit-report", ".", "json">>

\* report.replace(".audit-report.json", "")
RECURSIVE openapi_file(_)
openapi_file(report) ==
    IF report = <<>> THEN <<>>
    ELSE IF Len(report) >= Len(ReportSuffix)
            /\ SubSeq(report, 1, Len(ReportSuffix)) = ReportSuffix
    THEN openapi_file(SubSeq(report, Len(ReportSuffix) + 1, Len(report)))
    ELSE <<Head(report)>> \o openapi_file(Tail(report))

\* os.path.splitext(name)[0]: cut at the last dot, unless only dots precede it
splitext_root(name) ==
    LET dots == {k \in 1..Len(name) : name[k] = "."}
    IN  IF dots = {} THEN name
        ELSE LET d == CHOOSE k \in dots : \A m \in dots : m <= k
             IN  IF \E k \in 1..(d - 1) : name[k] # "."
                 THEN SubSeq(name, 1, d - 1)
                 ELSE name

\* f"{os.path.splitext(os.path.basename(report_path))[0]}.sarif"
sarif_file_name(report) == splitext_root(report) \o <<".", "sarif">>

---------------------------------------------------------------------------
(* Inputs: the environment, the output directory, the converter's output *)

MaxFiles == 3

MaxResults == 2

MkEnv(enforce, enrich, upload, level, report, pdf, token, repo, owner, ref, sha) ==
    [n \in EnvNames |->
        CASE n = "INPUT_ENFORCE-SQG"             -> enforce
          [] n = "INPUT_DATA-ENRICH"             -> enrich
          [] n = "INPUT_UPLOAD-TO-CODE-SCANNING" -> upload
          [] n = "INPUT_LOG-LEVEL"               -> level
          [] n = "INPUT_SARIF-REPORT"            -> report
          [] n = "INPUT_EXPORT-AS-PDF"           -> pdf
          [] n = "INPUT_TOKEN"                   -> token
          [] n = "GITHUB_REPOSITORY"             -> repo
          [] n = "GITHUB_REPOSITORY_OWNER"       -> owner
          [] n = "GITHUB_REF"                    -> ref
          [] n = "GITHUB_SHA"                    -> sha]

Blank == Str(<<" ", "\t">>)

Flags == {None, Str(<<"T","r","u","e">>)}

\* Environments of the runs of main: the runner sets owner, ref and sha
RunEnvs ==
    { MkEnv(enforce, None, upload, None, report, None, token, repo,
            Str(<<"o">>), Str(<<"r","e","f","s">>), Str(<<"c","0","f","f","e","e">>)) :
        enforce \in Flags, upload \in Flags,
        report \in {None, Blank, Str(<<"m">>)},
        token \in {None, Str(<<"t">>)},
        repo \in {None, Str(<<"m","y","r","e","p","o">>), Str(<<"o","/","r">>)} }

\* Values of one string variable: absent, empty, whitespace only, padded, plain
StringInputs == {None, Str(<<>>), Blank, Str(<<" ","x"," ">>), Str(<<"x">>)}

\* Environments the configuration loader is checked on
ConfigEnvs ==
    { MkEnv(flag, flag, Str(<<"f","a","l","s","e">>), level, report, pdf, token, repo,
            github, github, github) :
        flag \in Flags,
        level \in {None, Str(<<"D","e","b","u","g">>), Str(<<"x">>)},
        report \in StringInputs, pdf \in StringInputs, token \in StringInputs,
        repo \in StringInputs, github \in StringInputs }

\* Environments upload_sarif is checked on
UploadEnvs ==
    { MkEnv(enforce, None, Str(<<"t","r","u","e">>), None, None, None, token, repo,
            Str(<<"o">>), Str(<<"r","e","f","s">>), sha) :
        enforce \in Flags,
        token \in {None, Str(<<>>), Str(<<" ">>), Str(<<"t">>)},
        repo \in {None, Str(<<>>), Str(<<"m","y","r","e","p","o">>), Str(<<"/">>),
                  Str(<<"o","/","r">>)},
        sha \in {None, Str(<<"c","0","f","f","e","e">>)} }

\* Environment the gate evaluator is checked on
GateEnv ==
    MkEnv(Str(<<"t","r","u","e">>), None, None, None, None, None, Str(<<"t">>),
          Str(<<"o","/","r">>), Str(<<"o">>), Str(<<"r","e","f","s">>),
          Str(<<"c","0","f","f","e","e">>))

FileNames ==
    { <<"a", ".", "yaml", ".", "audit-report", ".", "json">>,
      <<"b", ".", "json", ".", "audit-report", ".", "json">>,
      <<"a", ".", "yaml", ".", "audit-report", ".", "txt">>,
      <<"a", ".", "yaml">> }

\* What os.listdir can return: distinct names, in any order
Listings ==
    { l \in UNION { [1..n -> FileNames] : n \in 0..MaxFiles } :
        \A j, k \in 1..Len(l) : j # k => l[j] # l[k] }

Result == JObj("ruleId" :> JStr(1))

ResultsOf(n) == JArr([k \in 1..n |-> Result])

RunOf(results) == JObj("results" :> results)

DocOf(runs) == JObj("runs" :> runs)

Scalars == {JNull, JNum, JBool, JStr(0), JStr(2)}

ResultsValues ==
    Scalars \cup {ResultsOf(n) : n \in 0..MaxResults} \cup {JObj("a" :> JNum)}

RunValues ==
    Scalars \cup {JArr(<<>>), JObj("tool" :> JStr(1))}
            \cup {RunOf(r) : r \in ResultsValues}

RunsValues ==
    Scalars \cup {JArr(<<>>)}
            \cup {JArr(<<run>>) : run \in RunValues}
            \cup {JArr(<<run, RunOf(ResultsOf(n))>>) : run \in RunValues, n \in {0, 1}}
            \cup {JObj("0" :> RunOf(ResultsOf(1)))}

\* Parsed documents the gate evaluator is checked on
Documents ==
    Scalars \cup {JArr(<<>>), JObj("version" :> JStr(5))}
            \cup {DocOf(runs) : runs \in RunsValues}

\* Parsed documents the converter leaves behind in the runs of main
RunDocuments ==
    { DocOf(JArr(<<RunOf(ResultsOf(0))>>)),
      DocOf(JArr(<<RunOf(ResultsOf(MaxResults))>>)),
      DocOf(JNull) }

Responses == {"ok", "http_error", "error"}

---------------------------------------------------------------------------
(* The process *)

Event(op, idx, file, res) == [op |-> op, idx |-> idx, file |-> file, res |-> res]

Exit(code, why) == pc' = "exited" /\ exitCode' = code /\ fatal' = why

\* discovery_run has not started
Fresh ==
    /\ results_files = <<>>
    /\ listed = FALSE
    /\ i = 0
    /\ sarif_file = <<>>
    /\ sarif_reports = <<>>
    /\ disk = <<>>
    /\ calls = <<>>
    /\ posts = <<>>
    /\ merge_cmd = <<>>
    /\ ret = NotCalled
    /\ exitCode = 0
    /\ fatal = "none"

Init ==
    /\ pc = "main"
    /\ env \in RunEnvs
    /\ binaries = ""
    /\ cfg = RunningConfiguration
    /\ Fresh

\* main, line 444: get_binary_path
GetBinaryPath ==
    /\ pc = "main"
    /\ \E local \in BOOLEAN, system \in {"Windows", "Darwin", "Linux", "FreeBSD"},
          isfile \in BOOLEAN :
          LET binary_path == _get_audit_binary(local, system)
          IN  IF binary_path = "" \/ ~isfile
              THEN Exit(1, "missing_binary") /\ UNCHANGED binaries
              ELSE /\ binaries' = binary_path
                   /\ pc' = "config"
                   /\ UNCHANGED <<exitCode, fatal>>
    /\ UNCHANGED <<env, cfg, results_files, listed, i, sarif_file, sarif_reports,
                   disk, calls, posts, merge_cmd, ret>>

\* main, line 446
GetRunningConfiguration ==
    /\ pc = "config"
    /\ cfg' = get_running_configuration(env)
    /\ pc' = "discovery"
    /\ UNCHANGED <<env, binaries, results_files, listed, i, sarif_file,
                   sarif_reports, disk, calls, posts, merge_cmd, ret, exitCode, fatal>>

\* Faulty variant of RunAudit: the ExecutionError of the audit is logged and
\* the run goes on
RunAudit_IgnoresFailure ==
    /\ pc = "discovery"
    /\ IF ~cfg.github_repository.some \/ ~HasSlash(cfg.github_repository.s)
       THEN Exit(1, "uncaught") /\ UNCHANGED calls
       ELSE \E ok \in BOOLEAN :
              /\ calls' = Append(calls, Event("audit", 0, <<>>, IF ok THEN "ok" ELSE "failed"))
              /\ pc' = "listdir"
              /\ UNCHANGED <<exitCode, fatal>>
    /\ UNCHANGED <<env, binaries, cfg, results_files, listed, i, sarif_file,
                   sarif_reports, disk, posts, merge_cmd, ret>>

\* discovery_run up to the audit: line 300 evaluates
\* github_repository.split('/')[1] whatever the log level, then the audit runs
RunAudit ==
    /\ pc = "discovery"
    /\ IF ~cfg.github_repository.some \/ ~HasSlash(cfg.github_repository.s)
       THEN Exit(1, "uncaught") /\ UNCHANGED calls
       ELSE \E ok \in BOOLEAN :
              /\ calls' = Append(calls, Event("audit", 0, <<>>, IF ok THEN "ok" ELSE "failed"))
              /\ IF ok THEN pc' = "listdir" /\ UNCHANGED <<exitCode, fatal>>
                       ELSE Exit(1, "audit_failed")
    /\ UNCHANGED <<env, binaries, cfg, results_files, listed, i, sarif_file,
                   sarif_reports, disk, posts, merge_cmd, ret>>

\* lines 333-343
ListOutputDirectory ==
    /\ pc = "listdir"
    /\ \E files \in Listings : results_files' = files
    /\ listed' = TRUE
    /\ sarif_reports' = <<>>
    /\ i' = 1
    /\ pc' = "loop"
    /\ UNCHANGED <<env, binaries, cfg, sarif_file, disk, calls, posts, merge_cmd,
                   ret, exitCode, fatal>>

\* lines 346-347: not a report, continue
SkipFile ==
    /\ pc = "loop"
    /\ i <= Len(results_files)
    /\ ~IsReport(results_files[i])
    /\ i' = i + 1
    /\ UNCHANGED <<pc, env, binaries, cfg, results_files, listed, sarif_file,
                   sarif_reports, disk, calls, posts, merge_cmd, ret, exitCode, fatal>>

\* Faulty variants of ConvertReport.  appendFirst: sarif_reports.append runs
\* before execute, so a failed conversion is recorded too.  retry: a failed
\* conversion is tried again.  fallThrough: the continue of line 384 is
\* missing, so a failed conversion goes on to the upload and the gate.
ConvertReport_Variant(appendFirst, retry, fallThrough) ==
    /\ pc = "loop"
    /\ i <= Len(results_files)
    /\ IsReport(results_files[i])
    /\ sarif_file' = sarif_file_name(results_files[i])
    /\ \E ok \in BOOLEAN, doc \in RunDocuments :
          IF ok
          THEN /\ calls' = Append(calls, Event("convert", i, results_files[i], "ok"))
               /\ sarif_reports' = Append(sarif_reports, sarif_file')
               /\ disk' = (sarif_file' :> doc) @@ disk
               /\ pc' = "upload"
               /\ UNCHANGED i
          ELSE /\ calls' = Append(calls, Event("convert", i, results_files[i], "failed"))
               /\ i' = IF retry \/ fallThrough THEN i ELSE i + 1
               /\ pc' = IF fallThrough THEN "upload" ELSE pc
               /\ sarif_reports' = IF appendFirst THEN Append(sarif_reports, sarif_file')
                                   ELSE sarif_reports
               /\ UNCHANGED disk
    /\ UNCHANGED <<env, binaries, cfg, results_files, listed, posts, merge_cmd,
                   ret, exitCode, fatal>>

ConvertReport_AppendsBeforeExecute == ConvertReport_Variant(TRUE, FALSE, FALSE)

ConvertReport_Retries == ConvertReport_Variant(FALSE, TRUE, FALSE)

ConvertReport_NoContinue == ConvertReport_Variant(FALSE, FALSE, TRUE)

\* lines 350-384: convert one report; a failure is logged and the loop continues
ConvertReport ==
    /\ pc = "loop"
    /\ i <= Len(results_files)
    /\ IsReport(results_files[i])
    /\ sarif_file' = sarif_file_name(results_files[i])
    /\ \E ok \in BOOLEAN, doc \in RunDocuments :
          IF ok
          THEN /\ calls' = Append(calls, Event("convert", i, results_files[i], "ok"))
               /\ sarif_reports' = Append(sarif_reports, sarif_file')
               /\ disk' = (sarif_file' :> doc) @@ disk
               /\ pc' = "upload"
               /\ UNCHANGED i
          ELSE /\ calls' = Append(calls, Event("convert", i, results_files[i], "failed"))
               /\ i' = i + 1
               /\ UNCHANGED <<pc, sarif_reports, disk>>
    /\ UNCHANGED <<env, binaries, cfg, results_files, listed, posts, merge_cmd,
                   ret, exitCode, fatal>>

\* Faulty variant of Upload: a failed upload is logged and the run goes on
Upload_IgnoresFailure ==
    /\ pc = "upload"
    /\ IF ~cfg.upload_to_code_scanning
       THEN pc' = "gate" /\ UNCHANGED <<calls, posts, exitCode, fatal>>
       ELSE \E response \in Responses :
              LET r == upload_sarif(cfg.github_token, cfg.github_repository,
                                    sarif_file \in DOMAIN disk, response)
              IN  /\ calls' = Append(calls, Event("upload", i, sarif_file, r.res))
                  /\ posts' = IF r.posted THEN Append(posts, sarif_file) ELSE posts
                  /\ pc' = "gate"
                  /\ UNCHANGED <<exitCode, fatal>>
    /\ UNCHANGED <<env, binaries, cfg, results_files, listed, i, sarif_file,
                   sarif_reports, disk, merge_cmd, ret>>

\* lines 392-400, and upload_sarif
Upload ==
    /\ pc = "upload"
    /\ IF ~cfg.upload_to_code_scanning
       THEN pc' = "gate" /\ UNCHANGED <<calls, posts, exitCode, fatal>>
       ELSE \E response \in Responses :
              LET r == upload_sarif(cfg.github_token, cfg.github_repository,
                                    sarif_file \in DOMAIN disk, response)
              IN  /\ calls' = Append(calls, Event("upload", i, sarif_file, r.res))
                  /\ posts' = IF r.posted THEN Append(posts, sarif_file) ELSE posts
                  /\ IF r.exit
                     THEN Exit(1, r.res)
                     ELSE pc' = "gate" /\ UNCHANGED <<exitCode, fatal>>
    /\ UNCHANGED <<env, binaries, cfg, results_files, listed, i, sarif_file,
                   sarif_reports, disk, merge_cmd, ret>>

\* Faulty variant of Gate: findings are logged and the loop goes on
Gate_LogsOnly ==
    /\ pc = "gate"
    /\ IF ~cfg.enforce
       THEN /\ pc' = "loop"
            /\ i' = i + 1
            /\ UNCHANGED <<calls, ret, exitCode, fatal>>
       ELSE LET r == IF sarif_file \in DOMAIN disk
                     THEN is_security_issues_found(disk[sarif_file])
                     ELSE Raised("FileNotFoundError")
            IN  /\ ret' = r
                /\ calls' = Append(calls, Event("gate", i, sarif_file,
                                CASE r.exc # "none" -> "raised"
                                  [] r.found        -> "found"
                                  [] OTHER          -> "clean"))
                /\ IF r.exc # "none" THEN Exit(1, "uncaught") /\ UNCHANGED i
                   ELSE /\ pc' = "loop"
                        /\ i' = i + 1
                        /\ UNCHANGED <<exitCode, fatal>>
    /\ UNCHANGED <<env, binaries, cfg, results_files, listed, sarif_file,
                   sarif_reports, disk, posts, merge_cmd>>

\* lines 405-415, and is_security_issues_found
Gate ==
    /\ pc = "gate"
    /\ IF ~cfg.enforce
       THEN /\ pc' = "loop"
            /\ i' = i + 1
            /\ UNCHANGED <<calls, ret, exitCode, fatal>>
       ELSE LET r == IF sarif_file \in DOMAIN disk
                     THEN is_security_issues_found(disk[sarif_file])
                     ELSE Raised("FileNotFoundError")
            IN  /\ ret' = r
                /\ calls' = Append(calls, Event("gate", i, sarif_file,
                                CASE r.exc # "none" -> "raised"
                                  [] r.found        -> "found"
                                  [] OTHER          -> "clean"))
                /\ IF r.exc # "none" THEN Exit(1, "uncaught") /\ UNCHANGED i
                   ELSE IF r.found THEN Exit(1, "gate_violation") /\ UNCHANGED i
                   ELSE /\ pc' = "loop"
                        /\ i' = i + 1
                        /\ UNCHANGED <<exitCode, fatal>>
    /\ UNCHANGED <<env, binaries, cfg, results_files, listed, sarif_file,
                   sarif_reports, disk, posts, merge_cmd>>

\* the for loop is exhausted
LoopEnd ==
    /\ pc = "loop"
    /\ i > Len(results_files)
    /\ pc' = "merge"
    /\ UNCHANGED <<env, binaries, cfg, results_files, listed, i, sarif_file,
                   sarif_reports, disk, calls, posts, merge_cmd, ret, exitCode, fatal>>

\* lines 423-440, then main returns
Merge ==
    /\ pc = "merge"
    /\ IF ~Truthy(cfg.sarif_report)
       THEN Exit(0, "none") /\ UNCHANGED <<calls, merge_cmd>>
       ELSE \E ok \in BOOLEAN :
              /\ merge_cmd' = sarif_reports
              /\ calls' = Append(calls, Event("merge", 0, <<>>, IF ok THEN "ok" ELSE "failed"))
              /\ IF ok THEN Exit(0, "none") ELSE Exit(1, "merge_failed")
    /\ UNCHANGED <<env, binaries, cfg, results_files, listed, i, sarif_file,
                   sarif_reports, disk, posts, ret>>

Next ==
    \/ GetBinaryPath
    \/ GetRunningConfiguration
    \/ RunAudit
    \/ ListOutputDirectory
    \/ SkipFile
    \/ ConvertReport
    \/ Upload
    \/ Gate
    \/ LoopEnd
    \/ Merge

Spec == Init /\ [][Next]_vars

---------------------------------------------------------------------------
(* The functions on their own: each Init is the state at the call, the     *)
(* arguments drawn from the input sets, and the step is the call.          *)

\* the loop of discovery_run at a report just converted (or, with no
\* document, at a SARIF file that is not there)
AtReport(disks) ==
    /\ binaries = _get_audit_binary(FALSE, "Linux")
    /\ cfg = get_running_configuration(env)
    /\ results_files = << <<"a", ".", "yaml", ".", "audit-report", ".", "json">> >>
    /\ listed = TRUE
    /\ i = 1
    /\ sarif_file = sarif_file_name(results_files[1])
    /\ sarif_reports = <<sarif_file>>
    /\ disk \in disks
    /\ calls = <<>>
    /\ posts = <<>>
    /\ merge_cmd = <<>>
    /\ ret = NotCalled
    /\ exitCode = 0
    /\ fatal = "none"

InitConfig ==
    /\ pc = "config"
    /\ env \in ConfigEnvs
    /\ binaries = _get_audit_binary(FALSE, "Linux")
    /\ cfg = RunningConfiguration
    /\ Fresh

SpecConfig == InitConfig /\ [][GetRunningConfiguration]_vars

InitUpload ==
    /\ pc = "upload"
    /\ env \in UploadEnvs
    /\ AtReport({<<>>, sarif_file_name(<<"a", ".", "yaml", ".", "audit-report", ".", "json">>)
                          :> DocOf(JArr(<<>>))})

SpecUpload == InitUpload /\ [][Upload]_vars

InitGate ==
    /\ pc = "gate"
    /\ env = GateEnv
    /\ AtReport({sarif_file_name(<<"a", ".", "yaml", ".", "audit-report", ".", "json">>) :> d :
                    d \in Documents})

SpecGate == InitGate /\ [][Gate]_vars

---------------------------------------------------------------------------
(* Properties *)

Range(q) == {q[n] : n \in 1..Len(q)}

CallsOf(op) == {n \in 1..Len(calls) : calls[n].op = op}

CallsAt(op, k) == {n \in CallsOf(op) : calls[n].idx = k}

ReportIdx == {k \in 1..Len(results_files) : IsReport(results_files[k])}

ConvertedOk(k) == \E n \in CallsAt("convert", k) : calls[n].res = "ok"

\* the for loop ran to its end
LoopDone == listed /\ pc \in {"merge", "exited"} /\ i > Len(results_files)

\* SARIF files of the reports converted successfully, in the order of the listing
ConvertedSarifs ==
    LET okIdx == SelectSeq([k \in 1..Len(results_files) |-> k], ConvertedOk)
    IN  [n \in 1..Len(okIdx) |-> sarif_file_name(results_files[okIdx[n]])]

\* C1: once the loop of discovery_run has run to its end, the conversion of
\* every report file of the listing has been attempted, whichever conversions
\* failed, and a merge command that was run received exactly the SARIF files
\* of the reports whose conversion succeeded, in processing order.
C1_MergeGetsSuccessfulConversions ==
    /\ LoopDone => \A k \in ReportIdx : CallsAt("convert", k) # {}
    /\ CallsOf("merge") # {} => LoopDone /\ merge_cmd = ConvertedSarifs

\* three reports, the second conversion failed, the third was still converted,
\* and the merge got the first and the third
C1_Witness ==
    /\ Len(results_files) = 3
    /\ ReportIdx = {1, 2, 3}
    /\ ConvertedOk(1) /\ ~ConvertedOk(2) /\ ConvertedOk(3)
    /\ CallsAt("convert", 2) # {}
    /\ CallsOf("merge") # {}
    /\ merge_cmd = <<sarif_file_name(results_files[1]), sarif_file_name(results_files[3])>>

\* C2: with gate enforcement enabled, a gate evaluation that finds issues is
\* the last step of the run: the process has exited with code 1, so that no
\* later report is converted, uploaded or gate-evaluated and no merge runs;
\* and the loop never moves past a converted report whose SARIF file has
\* findings.
C2_GateViolationEndsRun ==
    /\ \A n \in CallsOf("gate") :
          calls[n].res = "found" =>
             /\ cfg.enforce
             /\ n = Len(calls)
             /\ pc = "exited" /\ exitCode = 1
             /\ CallsOf("merge") = {}
    /\ cfg.enforce /\ (pc \in {"loop", "merge"} \/ (pc = "exited" /\ exitCode = 0)) =>
          \A f \in Range(sarif_reports) : ~is_security_issues_found(disk[f]).found

\* the gate stopped the run at the first of three reports, with a merge
\* output configured
C2_Witness ==
    /\ cfg.enforce
    /\ Truthy(cfg.sarif_report)
    /\ ReportIdx = {1, 2, 3}
    /\ pc = "exited"
    /\ calls[Len(calls)].op = "gate" /\ calls[Len(calls)].res = "found"
    /\ calls[Len(calls)].idx = 1
    /\ CallsAt("convert", 2) = {} /\ CallsAt("convert", 3) = {}

\* C8: a failed audit command is the only external step of the run: the
\* process has exited with code 1, the output directory was not listed, and
\* nothing was converted, uploaded, gate-evaluated or merged.
C8_AuditFailureEndsRun ==
    \A n \in CallsOf("audit") :
        calls[n].res = "failed" =>
           /\ Len(calls) = 1
           /\ pc = "exited" /\ exitCode = 1
           /\ ~listed
           /\ sarif_reports = <<>> /\ posts = <<>> /\ ret = NotCalled

C8_Witness ==
    /\ pc = "exited"
    /\ calls # <<>>
    /\ calls[1].op = "audit" /\ calls[1].res = "failed"
    /\ cfg.upload_to_code_scanning /\ cfg.enforce /\ Truthy(cfg.sarif_report)

\* C9: with upload enabled, the step after a successful conversion is the
\* upload of that report's SARIF file, a gate is evaluated only right after
\* the successful upload of the same report, and a failed upload is the last
\* step of the run, the process having exited with code 1.
C9_UploadBeforeGateAndFatal ==
    cfg.upload_to_code_scanning =>
       /\ \A n \in CallsOf("convert") :
             calls[n].res = "ok" =>
                IF n = Len(calls) THEN pc = "upload"
                ELSE /\ calls[n + 1].op = "upload"
                     /\ calls[n + 1].idx = calls[n].idx
                     /\ calls[n + 1].file = sarif_file_name(calls[n].file)
       /\ \A n \in CallsOf("gate") :
             /\ n > 1
             /\ calls[n - 1].op = "upload"
             /\ calls[n - 1].idx = calls[n].idx
             /\ calls[n - 1].res = "ok"
       /\ \A n \in CallsOf("upload") :
             calls[n].res # "ok" =>
                n = Len(calls) /\ pc = "exited" /\ exitCode = 1

\* the first report was converted, uploaded and gate-evaluated; the upload of
\* the second failed with an HTTP error and ended the run, a third report and
\* the merge left undone
C9_Witness ==
    /\ cfg.upload_to_code_scanning /\ cfg.enforce /\ Truthy(cfg.sarif_report)
    /\ ReportIdx = {1, 2, 3}
    /\ Len(calls) = 6
    /\ calls[3].op = "upload" /\ calls[3].res = "ok"
    /\ calls[4].op = "gate" /\ calls[4].idx = 1
    /\ calls[5].op = "convert" /\ calls[5].res = "ok"
    /\ calls[6].op = "upload" /\ calls[6].res = "http_error" /\ calls[6].idx = 2
    /\ pc = "exited"

\* C10: every upload and every gate evaluation is of a report whose
\* conversion succeeded, and of a SARIF file recorded in sarif_reports; a
\* report whose conversion failed is neither uploaded nor gate-evaluated, and
\* every POST carries a file of sarif_reports.
C10_OnlyConvertedReportsAreUsed ==
    /\ \A n \in CallsOf("upload") \cup CallsOf("gate") :
          /\ ConvertedOk(calls[n].idx)
          /\ calls[n].file = sarif_file_name(results_files[calls[n].idx])
          /\ calls[n].file \in Range(sarif_reports)
    /\ \A n \in CallsOf("convert") :
          calls[n].res = "failed" =>
             CallsAt("upload", calls[n].idx) \cup CallsAt("gate", calls[n].idx) = {}
    /\ Range(posts) \subseteq Range(sarif_reports)

\* a conversion failed, a later report was uploaded and gate-evaluated, and
\* the run ended normally
C10_Witness ==
    /\ pc = "exited" /\ exitCode = 0
    /\ \E n \in CallsOf("convert") :
          /\ calls[n].res = "failed"
          /\ \E m \in CallsOf("gate") : m > n
          /\ \E m \in CallsOf("upload") : m > n
    /\ posts # <<>>

\* the fatal conditions the exit-code contract lists, as facts of the run
MissingBinary == binaries = ""

MalformedRepository ==
    ~cfg.github_repository.some \/ ~HasSlash(cfg.github_repository.s)

SubprocessFailed ==
    \E n \in CallsOf("audit") \cup CallsOf("merge") : calls[n].res = "failed"

UploadFailed == \E n \in CallsOf("upload") : calls[n].res # "ok"

GateViolated == \E n \in CallsOf("gate") : calls[n].res = "found"

ListedFatalCondition ==
    MissingBinary \/ MalformedRepository \/ SubprocessFailed \/ UploadFailed
    \/ GateViolated

\* C3: a run of main ends with exit code 1 when one of the listed fatal
\* conditions occurred (missing binary, missing token or any other upload
\* failure, malformed repository identifier, audit or merge failure, gate
\* violation) and with exit code 0 when none did.
C3_ExitCodeContract ==
    pc = "exited" => exitCode = (IF ListedFatalCondition THEN 1 ELSE 0)

\* The contract of C3 away from the gate evaluator's uncaught exception: in
\* every run in which is_security_issues_found did not raise, the exit code
\* is 1 exactly when a listed fatal condition occurred.
ExitCodeContractUnlessGateRaises ==
    pc = "exited" /\ ret.exc \in {"none", "not called"} =>
       exitCode = (IF ListedFatalCondition THEN 1 ELSE 0)

\* C4: upload_sarif issues the POST only with a non-empty token, an existing
\* SARIF file and a repository identifier containing "/"; when one of the
\* three fails, the call ends the process with exit code 1 and no POST.
C4_PostOnlyWhenPreconditionsHold ==
    LET preconditions ==
            /\ Truthy(cfg.github_token)
            /\ sarif_file \in DOMAIN disk
            /\ cfg.github_repository.some /\ HasSlash(cfg.github_repository.s)
    IN  /\ posts # <<>> => preconditions
        /\ CallsOf("upload") # {} /\ ~preconditions =>
              pc = "exited" /\ exitCode = 1 /\ posts = <<>>

\* upload_sarif was called for repository "myrepo", with a token and the file
\* in place, and ended the process without a POST
C4_Witness ==
    /\ CallsOf("upload") # {}
    /\ Truthy(cfg.github_token)
    /\ sarif_file \in DOMAIN disk
    /\ cfg.github_repository = Str(<<"m","y","r","e","p","o">>)
    /\ pc = "exited" /\ exitCode = 1
    /\ posts = <<>>

\* what the gate evaluator is specified to return for a parsed document:
\* (True, n) when the first run's results is a list of n > 0 items, and
\* (False, -1) for every other document
FirstRunResults(data) ==
    IF /\ data.t = "obj" /\ "runs" \in DOMAIN data.fields
       /\ data.fields["runs"].t = "arr" /\ Len(data.fields["runs"].items) > 0
       /\ data.fields["runs"].items[1].t = "obj"
       /\ "results" \in DOMAIN data.fields["runs"].items[1].fields
       /\ data.fields["runs"].items[1].fields["results"].t = "arr"
    THEN Len(data.fields["runs"].items[1].fields["results"].items)
    ELSE 0

\* C5: is_security_issues_found returns (True, n) when the first run's results
\* list has n > 0 items, (False, -1) when it is empty, and (False, -1) without
\* raising for every other shape of the parsed document.
C5_GateEvaluatorNeverRaises ==
    ret # NotCalled =>
       ret = IF FirstRunResults(disk[sarif_file]) > 0
             THEN Returned(TRUE, FirstRunResults(disk[sarif_file]))
             ELSE Returned(FALSE, -1)

\* a value that is set and empty or whitespace-only
IsBlank(v) == v.some /\ \A k \in 1..Len(v.s) : v.s[k] \in Whitespace

Loaded == pc = "discovery"

\* C6 as stated: each of the seven string inputs, when empty or
\* whitespace-only, resolves to an absent configuration field.
C6_EveryBlankInputIsAbsent ==
    Loaded =>
       /\ IsBlank(env["INPUT_SARIF-REPORT"]) => cfg.sarif_report = None
       /\ IsBlank(env["INPUT_EXPORT-AS-PDF"]) => cfg.export_as_pdf = None
       /\ IsBlank(env["INPUT_TOKEN"]) => cfg.github_token = None
       /\ IsBlank(env["GITHUB_REPOSITORY"]) => cfg.github_repository = None
       /\ IsBlank(env["GITHUB_REPOSITORY_OWNER"]) =>
             cfg.github_repository_owner = None /\ cfg.github_organization = None
       /\ IsBlank(env["GITHUB_REF"]) => cfg.github_ref = None
       /\ IsBlank(env["GITHUB_SHA"]) => cfg.github_sha = None

\* C6, amended: INPUT_SARIF-REPORT and INPUT_EXPORT-AS-PDF resolve to an
\* absent field when empty or whitespace-only, and to the value as read
\* otherwise; INPUT_TOKEN, GITHUB_REPOSITORY, GITHUB_REPOSITORY_OWNER,
\* GITHUB_REF and GITHUB_SHA are stored exactly as read, an empty or
\* whitespace-only value included.
C6_BlankReportAndPdfAreAbsent ==
    Loaded =>
       /\ cfg.sarif_report =
             IF IsBlank(env["INPUT_SARIF-REPORT"]) THEN None ELSE env["INPUT_SARIF-REPORT"]
       /\ cfg.export_as_pdf =
             IF IsBlank(env["INPUT_EXPORT-AS-PDF"]) THEN None ELSE env["INPUT_EXPORT-AS-PDF"]
       /\ cfg.github_token = env["INPUT_TOKEN"]
       /\ cfg.github_repository = env["GITHUB_REPOSITORY"]
       /\ cfg.github_repository_owner = env["GITHUB_REPOSITORY_OWNER"]
       /\ cfg.github_organization = env["GITHUB_REPOSITORY_OWNER"]
       /\ cfg.github_ref = env["GITHUB_REF"]
       /\ cfg.github_sha = env["GITHUB_SHA"]

\* the loader ran on whitespace-only values: the report path came out absent,
\* the token came out as the whitespace it was
C6_Witness ==
    /\ Loaded
    /\ env["INPUT_SARIF-REPORT"] = Blank /\ cfg.sarif_report = None
    /\ env["INPUT_EXPORT-AS-PDF"] = Str(<<>>) /\ cfg.export_as_pdf = None
    /\ env["INPUT_TOKEN"] = Blank /\ cfg.github_token = Blank

\* the run got as far as the audit command
ReachedAudit == ~MissingBinary /\ pc # "config" /\ pc # "discovery" /\ ~MalformedRepository

AtMostOncePerReport ==
    /\ \A k \in 1..Len(results_files) :
          /\ Cardinality(CallsAt("convert", k)) <= 1
          /\ Cardinality(CallsAt("upload", k)) <= 1
          /\ Cardinality(CallsAt("gate", k)) <= 1
    /\ Len(posts) <= Cardinality(CallsOf("upload"))
    /\ Cardinality(CallsOf("merge")) <= 1

\* C7 as stated: in any run the audit command is executed exactly once, and
\* each conversion, each upload and the merge at most once.
C7_EveryRunAuditsExactlyOnce ==
    /\ pc = "exited" => Cardinality(CallsOf("audit")) = 1
    /\ AtMostOncePerReport

\* C7, amended: the audit command is executed at most once, and exactly once
\* in every run that gets as far as the audit step (a run that ends before it,
\* on a missing binary or on a repository identifier that is absent or has no
\* "/", executes it zero times); each report's conversion, each converted
\* report's upload and the merge are executed at most once, whatever the
\* outcome of any call.
C7_NoCallIsRepeated ==
    /\ Cardinality(CallsOf("audit")) = (IF ReachedAudit THEN 1 ELSE 0)
    /\ AtMostOncePerReport

\* every kind of call failed once in the run, or could not: a conversion and
\* an upload failed, and nothing was tried again
C7_Witness ==
    /\ pc = "exited"
    /\ Cardinality(CallsOf("audit")) = 1
    /\ \E n \in CallsOf("convert") : calls[n].res = "failed"
    /\ \E n \in CallsOf("upload") : calls[n].res = "error"
    /\ Len(posts) = 2

=============================================================================
